---- MODULE Spec2Model ----
(***************************************************************************)
(* Backlight-interface resolution of drivers/acpi/video_detect.c:          *)
(* the command-line parser, the DMI quirk table and its callbacks, the     *)
(* one-time initialisation under init_mutex, the lock-free precedence      *)
(* policy of __acpi_video_get_backlight_type() and the runtime override    *)
(* acpi_video_set_dmi_backlight_type().                                    *)
(***************************************************************************)
EXTENDS Integers, Sequences, FiniteSets, TLC

(* enum acpi_backlight_type *)
acpi_backlight_undef == "undef"
acpi_backlight_video == "video"
acpi_backlight_vendor == "vendor"
acpi_backlight_native == "native"
acpi_backlight_nvidia_wmi_ec == "nvidia_wmi_ec"
acpi_backlight_none == "none"

BacklightType ==
    {acpi_backlight_undef, acpi_backlight_video, acpi_backlight_vendor,
     acpi_backlight_native, acpi_backlight_nvidia_wmi_ec, acpi_backlight_none}

(***************************************************************************)
(* DMI identity and the quirk table.                                       *)
(***************************************************************************)
DMI_SYS_VENDOR == "sys_vendor"
DMI_PRODUCT_NAME == "product_name"
DMI_PRODUCT_VERSION == "product_version"
DMI_BOARD_NAME == "board_name"
DMI_BIOS_VERSION == "bios_version"

DmiSlots ==
    {DMI_SYS_VENDOR, DMI_PRODUCT_NAME, DMI_PRODUCT_VERSION, DMI_BOARD_NAME,
     DMI_BIOS_VERSION}

(* one entry of dmi_system_id.matches *)
DMI_MATCH(a, b) == [slot |-> a, substr |-> b, exact_match |-> FALSE]

DMI_EXACT_MATCH(a, b) == [slot |-> a, substr |-> b, exact_match |-> TRUE]

(* video_detect_dmi_table[], in declaration order, without the terminator *)
video_detect_dmi_table == <<
    (* line 149 *)
    [callback |-> "video_detect_force_vendor",
     matches |-> <<
         DMI_MATCH(DMI_SYS_VENDOR, "SAMSUNG ELECTRONICS CO., LTD."),
         DMI_MATCH(DMI_PRODUCT_NAME, "X360"),
         DMI_MATCH(DMI_BOARD_NAME, "X360")>>],
    (* line 158 *)
    [callback |-> "video_detect_force_vendor",
     matches |-> <<
         DMI_MATCH(DMI_SYS_VENDOR, "ASUSTeK Computer Inc."),
         DMI_MATCH(DMI_PRODUCT_NAME, "UL30VT")>>],
    (* line 166 *)
    [callback |-> "video_detect_force_vendor",
     matches |-> <<
         DMI_MATCH(DMI_SYS_VENDOR, "ASUSTeK Computer Inc."),
         DMI_MATCH(DMI_PRODUCT_NAME, "UL30A")>>],
    (* line 174 *)
    [callback |-> "video_detect_force_vendor",
     matches |-> <<
         DMI_MATCH(DMI_SYS_VENDOR, "GIGABYTE"),
         DMI_MATCH(DMI_PRODUCT_NAME, "GB-BXBT-2807")>>],
    (* line 182 *)
    [callback |-> "video_detect_force_vendor",
     matches |-> <<
         DMI_MATCH(DMI_SYS_VENDOR, "Sony Corporation"),
         DMI_MATCH(DMI_PRODUCT_NAME, "VPCEH3U1E")>>],
    (* line 190 *)
    [callback |-> "video_detect_force_native",
     matches |-> <<
         DMI_MATCH(DMI_SYS_VENDOR, "Dell Inc."),
         DMI_MATCH(DMI_PRODUCT_NAME, "Vostro 15 3535")>>],
    (* line 204 *)
    [callback |-> "video_detect_portege_r100",
     matches |-> <<
         DMI_MATCH(DMI_SYS_VENDOR, "TOSHIBA"),
         DMI_MATCH(DMI_PRODUCT_NAME, "Portable PC"),
         DMI_MATCH(DMI_PRODUCT_VERSION, "Version 1.0"),
         DMI_MATCH(DMI_BOARD_NAME, "Portable PC")>>],
    (* line 220 *)
    [callback |-> "video_detect_force_video",
     matches |-> <<
         DMI_MATCH(DMI_SYS_VENDOR, "Apple Inc."),
         DMI_MATCH(DMI_PRODUCT_NAME, "iMac14,1")>>],
    (* line 228 *)
    [callback |-> "video_detect_force_video",
     matches |-> <<
         DMI_MATCH(DMI_SYS_VENDOR, "Apple Inc."),
         DMI_MATCH(DMI_PRODUCT_NAME, "iMac14,2")>>],
    (* line 242 *)
    [callback |-> "video_detect_force_video",
     matches |-> <<
         DMI_MATCH(DMI_SYS_VENDOR, "LENOVO"),
         DMI_MATCH(DMI_PRODUCT_VERSION, "ThinkPad W530")>>],
    (* line 258 *)
    [callback |-> "video_detect_force_video",
     matches |-> <<
         DMI_MATCH(DMI_SYS_VENDOR, "LENOVO"),
         DMI_MATCH(DMI_PRODUCT_VERSION, "ThinkPad T420")>>],
    (* line 266 *)
    [callback |-> "video_detect_force_video",
     matches |-> <<
         DMI_MATCH(DMI_SYS_VENDOR, "LENOVO"),
         DMI_MATCH(DMI_PRODUCT_VERSION, "ThinkPad T520")>>],
    (* line 274 *)
    [callback |-> "video_detect_force_video",
     matches |-> <<
         DMI_MATCH(DMI_SYS_VENDOR, "LENOVO"),
         DMI_MATCH(DMI_PRODUCT_VERSION, "ThinkPad X201s")>>],
    (* line 282 *)
    [callback |-> "video_detect_force_video",
     matches |-> <<
         DMI_MATCH(DMI_SYS_VENDOR, "LENOVO"),
         DMI_MATCH(DMI_PRODUCT_VERSION, "ThinkPad X201T")>>],
    (* line 293 *)
    [callback |-> "video_detect_force_video",
     matches |-> <<
         DMI_MATCH(DMI_SYS_VENDOR, "Hewlett-Packard"),
         DMI_MATCH(DMI_PRODUCT_NAME, "HP ENVY 15 Notebook PC")>>],
    (* line 301 *)
    [callback |-> "video_detect_force_video",
     matches |-> <<
         DMI_MATCH(DMI_SYS_VENDOR, "SAMSUNG ELECTRONICS CO., LTD."),
         DMI_MATCH(DMI_PRODUCT_NAME, "870Z5E/880Z5E/680Z5E")>>],
    (* line 309 *)
    [callback |-> "video_detect_force_video",
     matches |-> <<
         DMI_MATCH(DMI_SYS_VENDOR, "SAMSUNG ELECTRONICS CO., LTD."),
         DMI_MATCH(DMI_PRODUCT_NAME, "370R4E/370R4V/370R5E/3570RE/370R5V")>>],
    (* line 319 *)
    [callback |-> "video_detect_force_video",
     matches |-> <<
         DMI_MATCH(DMI_SYS_VENDOR, "SAMSUNG ELECTRONICS CO., LTD."),
         DMI_MATCH(DMI_PRODUCT_NAME, "3570R/370R/470R/450R/510R/4450RV")>>],
    (* line 329 *)
    [callback |-> "video_detect_force_video",
     matches |-> <<
         DMI_MATCH(DMI_SYS_VENDOR, "SAMSUNG ELECTRONICS CO., LTD."),
         DMI_MATCH(DMI_PRODUCT_NAME, "670Z5E")>>],
    (* line 338 *)
    [callback |-> "video_detect_force_video",
     matches |-> <<
         DMI_MATCH(DMI_SYS_VENDOR, "SAMSUNG ELECTRONICS CO., LTD."),
         DMI_MATCH(DMI_PRODUCT_NAME, "730U3E/740U3E")>>],
    (* line 347 *)
    [callback |-> "video_detect_force_video",
     matches |-> <<
         DMI_MATCH(DMI_SYS_VENDOR, "SAMSUNG ELECTRONICS CO., LTD."),
         DMI_MATCH(DMI_PRODUCT_NAME, "900X3C/900X3D/900X3E/900X4C/900X4D")>>],
    (* line 357 *)
    [callback |-> "video_detect_force_video",
     matches |-> <<
         DMI_MATCH(DMI_SYS_VENDOR, "Dell Inc."),
         DMI_MATCH(DMI_PRODUCT_NAME, "XPS L421X")>>],
    (* line 366 *)
    [callback |-> "video_detect_force_video",
     matches |-> <<
         DMI_MATCH(DMI_SYS_VENDOR, "Dell Inc."),
         DMI_MATCH(DMI_PRODUCT_NAME, "XPS L521X")>>],
    (* line 375 *)
    [callback |-> "video_detect_force_video",
     matches |-> <<
         DMI_MATCH(DMI_SYS_VENDOR, "SAMSUNG ELECTRONICS CO., LTD."),
         DMI_MATCH(DMI_PRODUCT_NAME, "530U4E/540U4E")>>],
    (* line 384 *)
    [callback |-> "video_detect_force_video",
     matches |-> <<
         DMI_MATCH(DMI_SYS_VENDOR, "Hewlett-Packard"),
         DMI_MATCH(DMI_PRODUCT_NAME, "HP 635 Notebook PC")>>],
    (* line 395 *)
    [callback |-> "video_detect_force_native",
     matches |-> <<
         DMI_MATCH(DMI_SYS_VENDOR, "LENOVO"),
         DMI_MATCH(DMI_BOARD_NAME, "Lenovo IdeaPad S405")>>],
    (* line 404 *)
    [callback |-> "video_detect_force_native",
     matches |-> <<
         DMI_MATCH(DMI_SYS_VENDOR, "LENOVO"),
         DMI_MATCH(DMI_PRODUCT_VERSION, "IdeaPad Z470")>>],
    (* line 413 *)
    [callback |-> "video_detect_force_native",
     matches |-> <<
         DMI_MATCH(DMI_SYS_VENDOR, "LENOVO"),
         DMI_MATCH(DMI_PRODUCT_NAME, "102434U")>>],
    (* line 421 *)
    [callback |-> "video_detect_force_native",
     matches |-> <<
         DMI_MATCH(DMI_SYS_VENDOR, "LENOVO"),
         DMI_MATCH(DMI_PRODUCT_NAME, "81FS")>>],
    (* line 429 *)
    [callback |-> "video_detect_force_native",
     matches |-> <<
         DMI_MATCH(DMI_SYS_VENDOR, "LENOVO"),
         DMI_MATCH(DMI_PRODUCT_NAME, "82BK")>>],
    (* line 437 *)
    [callback |-> "video_detect_force_native",
     matches |-> <<
         DMI_MATCH(DMI_SYS_VENDOR, "LENOVO"),
         DMI_MATCH(DMI_PRODUCT_NAME, "3371")>>],
    (* line 445 *)
    [callback |-> "video_detect_force_native",
     matches |-> <<
         DMI_MATCH(DMI_SYS_VENDOR, "Apple Inc."),
         DMI_MATCH(DMI_PRODUCT_NAME, "iMac11,3")>>],
    (* line 454 *)
    [callback |-> "video_detect_force_native",
     matches |-> <<
         DMI_MATCH(DMI_SYS_VENDOR, "Apple Inc."),
         DMI_MATCH(DMI_PRODUCT_NAME, "iMac12,1")>>],
    (* line 463 *)
    [callback |-> "video_detect_force_native",
     matches |-> <<
         DMI_MATCH(DMI_SYS_VENDOR, "Apple Inc."),
         DMI_MATCH(DMI_PRODUCT_NAME, "iMac12,2")>>],
    (* line 472 *)
    [callback |-> "video_detect_force_native",
     matches |-> <<
         DMI_MATCH(DMI_SYS_VENDOR, "Apple Inc."),
         DMI_MATCH(DMI_PRODUCT_NAME, "MacBookPro12,1")>>],
    (* line 480 *)
    [callback |-> "video_detect_force_native",
     matches |-> <<
         DMI_MATCH(DMI_SYS_VENDOR, "Dell Inc."),
         DMI_MATCH(DMI_PRODUCT_NAME, "Inspiron N4010")>>],
    (* line 488 *)
    [callback |-> "video_detect_force_native",
     matches |-> <<
         DMI_MATCH(DMI_SYS_VENDOR, "Dell Inc."),
         DMI_MATCH(DMI_PRODUCT_NAME, "Vostro V131")>>],
    (* line 497 *)
    [callback |-> "video_detect_force_native",
     matches |-> <<
         DMI_MATCH(DMI_SYS_VENDOR, "Dell Inc."),
         DMI_MATCH(DMI_PRODUCT_NAME, "Dell System XPS L702X")>>],
    (* line 505 *)
    [callback |-> "video_detect_force_native",
     matches |-> <<
         DMI_MATCH(DMI_SYS_VENDOR, "Dell Inc."),
         DMI_MATCH(DMI_PRODUCT_NAME, "Precision 7510")>>],
    (* line 513 *)
    [callback |-> "video_detect_force_native",
     matches |-> <<
         DMI_MATCH(DMI_SYS_VENDOR, "Dell Inc."),
         DMI_MATCH(DMI_PRODUCT_NAME, "Studio 1569")>>],
    (* line 521 *)
    [callback |-> "video_detect_force_native",
     matches |-> <<
         DMI_MATCH(DMI_SYS_VENDOR, "Acer"),
         DMI_MATCH(DMI_PRODUCT_NAME, "Aspire 3830TG")>>],
    (* line 529 *)
    [callback |-> "video_detect_force_native",
     matches |-> <<
         DMI_MATCH(DMI_SYS_VENDOR, "Acer"),
         DMI_MATCH(DMI_PRODUCT_NAME, "Aspire 5738"),
         DMI_MATCH(DMI_BOARD_NAME, "JV50")>>],
    (* line 539 *)
    [callback |-> "video_detect_force_native",
     matches |-> <<
         DMI_MATCH(DMI_SYS_VENDOR, "Acer"),
         DMI_MATCH(DMI_PRODUCT_NAME, "TravelMate 5735Z"),
         DMI_MATCH(DMI_BOARD_NAME, "BA51_MV")>>],
    (* line 548 *)
    [callback |-> "video_detect_force_native",
     matches |-> <<
         DMI_MATCH(DMI_SYS_VENDOR, "ASUSTeK COMPUTER INC."),
         DMI_MATCH(DMI_PRODUCT_NAME, "GA401")>>],
    (* line 556 *)
    [callback |-> "video_detect_force_native",
     matches |-> <<
         DMI_MATCH(DMI_SYS_VENDOR, "ASUSTeK COMPUTER INC."),
         DMI_MATCH(DMI_PRODUCT_NAME, "GA502")>>],
    (* line 564 *)
    [callback |-> "video_detect_force_native",
     matches |-> <<
         DMI_MATCH(DMI_SYS_VENDOR, "ASUSTeK COMPUTER INC."),
         DMI_MATCH(DMI_PRODUCT_NAME, "GA503")>>],
    (* line 583 *)
    [callback |-> "video_detect_force_native",
     matches |-> <<
         DMI_MATCH(DMI_BOARD_NAME, "NL5xRU")>>],
    (* line 590 *)
    [callback |-> "video_detect_force_native",
     matches |-> <<
         DMI_MATCH(DMI_SYS_VENDOR, "TUXEDO"),
         DMI_MATCH(DMI_BOARD_NAME, "AURA1501")>>],
    (* line 598 *)
    [callback |-> "video_detect_force_native",
     matches |-> <<
         DMI_MATCH(DMI_SYS_VENDOR, "TUXEDO"),
         DMI_MATCH(DMI_BOARD_NAME, "EDUBOOK1502")>>],
    (* line 606 *)
    [callback |-> "video_detect_force_native",
     matches |-> <<
         DMI_MATCH(DMI_BOARD_NAME, "NL5xNU")>>],
    (* line 619 *)
    [callback |-> "video_detect_force_native",
     matches |-> <<
         DMI_MATCH(DMI_BOARD_NAME, "PF5PU1G")>>],
    (* line 626 *)
    [callback |-> "video_detect_force_native",
     matches |-> <<
         DMI_MATCH(DMI_BOARD_NAME, "PF4NU1F")>>],
    (* line 633 *)
    [callback |-> "video_detect_force_native",
     matches |-> <<
         DMI_MATCH(DMI_SYS_VENDOR, "TUXEDO"),
         DMI_MATCH(DMI_BOARD_NAME, "PULSE1401")>>],
    (* line 641 *)
    [callback |-> "video_detect_force_native",
     matches |-> <<
         DMI_MATCH(DMI_BOARD_NAME, "PF5NU1G")>>],
    (* line 648 *)
    [callback |-> "video_detect_force_native",
     matches |-> <<
         DMI_MATCH(DMI_SYS_VENDOR, "TUXEDO"),
         DMI_MATCH(DMI_BOARD_NAME, "PULSE1501")>>],
    (* line 656 *)
    [callback |-> "video_detect_force_native",
     matches |-> <<
         DMI_MATCH(DMI_BOARD_NAME, "PF5LUXG")>>],
    (* line 673 *)
    [callback |-> "video_detect_force_vendor",
     matches |-> <<
         DMI_EXACT_MATCH(DMI_SYS_VENDOR, "Intel Corporation"),
         DMI_EXACT_MATCH(DMI_PRODUCT_NAME, "CHERRYVIEW D1 PLATFORM"),
         DMI_EXACT_MATCH(DMI_PRODUCT_VERSION, "YETI-11")>>],
    (* line 682 *)
    [callback |-> "video_detect_force_vendor",
     matches |-> <<
         DMI_MATCH(DMI_SYS_VENDOR, "Intel Corp."),
         DMI_MATCH(DMI_PRODUCT_NAME, "VALLEYVIEW C0 PLATFORM"),
         DMI_MATCH(DMI_BOARD_NAME, "BYT-T FFD8"),
         DMI_MATCH(DMI_BIOS_VERSION, "BLADE_21")>>],
    (* line 696 *)
    [callback |-> "video_detect_force_vendor",
     matches |-> <<
         DMI_MATCH(DMI_SYS_VENDOR, "Intel Corporation"),
         DMI_MATCH(DMI_PRODUCT_NAME, "CHERRYVIEW D1 PLATFORM"),
         DMI_MATCH(DMI_PRODUCT_VERSION, "Blade3-10A-001")>>],
    (* line 705 *)
    [callback |-> "video_detect_force_vendor",
     matches |-> <<
         DMI_MATCH(DMI_SYS_VENDOR, "Xiaomi Inc"),
         DMI_MATCH(DMI_PRODUCT_NAME, "Mipad2")>>]
>>


(* outcome of a table callback: the values it stores into                  *)
(* acpi_backlight_dmi (none or one) and its return value                   *)
video_detect_force_vendor == [write |-> <<acpi_backlight_vendor>>, ret |-> 0]

video_detect_force_video == [write |-> <<acpi_backlight_video>>, ret |-> 0]

video_detect_force_native == [write |-> <<acpi_backlight_native>>, ret |-> 0]

(* the callback without the probe of line 135 *)
video_detect_portege_r100_ungated(dev) ==
    [write |-> <<acpi_backlight_vendor>>, ret |-> 0]

(* dev: pci_get_device(PCI_VENDOR_ID_TRIDENT, 0x2100, NULL) found a device *)
video_detect_portege_r100(dev) ==
    [write |-> IF dev THEN <<acpi_backlight_vendor>> ELSE <<>>, ret |-> 0]

RunCallback(cb, dev) ==
    CASE cb = "video_detect_force_vendor" -> video_detect_force_vendor
      [] cb = "video_detect_force_video" -> video_detect_force_video
      [] cb = "video_detect_force_native" -> video_detect_force_native
      [] cb = "video_detect_portege_r100" -> video_detect_portege_r100(dev)

(* substring search on strings *)
strstr(hay, needle) ==
    \E i \in 1..(Len(hay) - Len(needle) + 1) :
        SubSeq(hay, i, i + Len(needle) - 1) = needle

(* an identity maps each slot to the set holding its string, or to {} when *)
(* the firmware does not provide the field                                 *)
dmi_matches(rule, ident) ==
    \A i \in DOMAIN rule.matches :
        LET m == rule.matches[i] IN
        \E s \in ident[m.slot] :
            IF m.exact_match THEN s = m.substr ELSE strstr(s, m.substr)

(* a walk that never stops at a committed entry *)
DmiVisitNoStop(d, ident, dev, dmi) ==
    LET rule == video_detect_dmi_table[d] IN
    IF dmi_matches(rule, ident)
    THEN LET r == RunCallback(rule.callback, dev) IN
         [dmi |-> IF r.write = <<>> THEN dmi ELSE r.write[Len(r.write)],
          stop |-> FALSE]
    ELSE [dmi |-> dmi, stop |-> FALSE]

(* visit of table entry d by dmi_check_system: the new value of            *)
(* acpi_backlight_dmi and whether the iteration stops there                *)
DmiVisit(d, ident, dev, dmi) ==
    LET rule == video_detect_dmi_table[d] IN
    IF dmi_matches(rule, ident)
    THEN LET r == RunCallback(rule.callback, dev) IN
         [dmi |-> IF r.write = <<>> THEN dmi ELSE r.write[Len(r.write)],
          stop |-> r.write # <<>>]
    ELSE [dmi |-> dmi, stop |-> FALSE]

RECURSIVE DmiScan(_, _, _, _)
DmiScan(d, ident, dev, dmi) ==
    IF d > Len(video_detect_dmi_table)
    THEN dmi
    ELSE LET o == DmiVisit(d, ident, dev, dmi) IN
         IF o.stop THEN o.dmi ELSE DmiScan(d + 1, ident, dev, o.dmi)


Ident(v, pn, pv, bn, bv) ==
    (DMI_SYS_VENDOR :> v) @@ (DMI_PRODUCT_NAME :> pn) @@
    (DMI_PRODUCT_VERSION :> pv) @@ (DMI_BOARD_NAME :> bn) @@
    (DMI_BIOS_VERSION :> bv)

NoIdent == Ident({}, {}, {}, {}, {})

(* machines offered to the quirk table *)
Identities ==
    {NoIdent,
     Ident({"QEMU"}, {"Standard PC"}, {"pc-q35"}, {}, {"1.16"}),
     Ident({"SAMSUNG ELECTRONICS CO., LTD."}, {"X360"}, {}, {"X360"}, {}),
     Ident({"SAMSUNG ELECTRONICS CO., LTD."}, {"X360"}, {}, {}, {}),
     Ident({"SAMSUNG ELECTRONICS CO., LTD."}, {"X360/670Z5E"}, {},
           {"X360"}, {}),
     Ident({"Dell Inc."}, {"Vostro 15 3535"}, {}, {"0H3MW9"}, {}),
     Ident({"Dell Inc."}, {"XPS L421X"}, {}, {"NL5xRU"}, {}),
     Ident({"Dell Inc."}, {"Vostro 15 3535 / XPS L521X"}, {}, {}, {}),
     Ident({"Apple Inc."}, {"iMac14,1"}, {"1.0"}, {}, {}),
     Ident({"LENOVO"}, {"102434U"}, {"ThinkPad T420"}, {}, {}),
     Ident({"TOSHIBA"}, {"Portable PC"}, {"Version 1.0"}, {"Portable PC"}, {}),
     Ident({"TOSHIBA"}, {"Portable PC"}, {"Version 1.0"},
           {"Portable PC NL5xNU"}, {}),
     Ident({"Intel Corporation"}, {"CHERRYVIEW D1 PLATFORM"}, {"YETI-11"},
           {}, {}),
     Ident({"Intel Corporation"}, {"CHERRYVIEW D1 PLATFORM"},
           {"YETI-11 Blade3-10A-001"}, {"PF5LUXG"}, {}),
     Ident({"Intel Corp."}, {"VALLEYVIEW C0 PLATFORM"}, {},
           {"BYT-T FFD8"}, {"BLADE_21.X64.0005"}),
     Ident({"TUXEDO"}, {}, {}, {"PULSE1501"}, {})}


Unwritten == "unwritten"

(* the walk over the whole table for each offered machine: the last value  *)
(* stored into acpi_backlight_dmi, or Unwritten when no callback stored    *)
(* one (no callback reads acpi_backlight_dmi)                              *)
DmiOutcome ==
    [ident \in Identities, dev \in BOOLEAN |-> DmiScan(1, ident, dev, Unwritten)]

(* dmi_check_system(video_detect_dmi_table): final acpi_backlight_dmi *)
dmi_check_system(ident, dev, dmi) ==
    IF DmiOutcome[ident, dev] = Unwritten THEN dmi ELSE DmiOutcome[ident, dev]

(***************************************************************************)
(* Command line, capability scan, vendor feature probe, heuristics.        *)
(***************************************************************************)
(* strncmp(a, b, strlen(a)): text after the token is ignored *)
strcmpPrefix(a, b) ==
    IF Len(b) >= Len(a) /\ SubSeq(b, 1, Len(a)) = a THEN 0 ELSE 1

(* strcmp() as far as the parser uses it: 0 for equal strings *)
strcmp(a, b) == IF a = b THEN 0 ELSE 1

(* acpi_video_parse_cmdline(): new value of acpi_backlight_cmdline *)
acpi_video_parse_cmdline(str, cmdline) ==
    LET c1 == IF strcmp("vendor", str) = 0
              THEN acpi_backlight_vendor ELSE cmdline
        c2 == IF strcmp("video", str) = 0 THEN acpi_backlight_video ELSE c1
        c3 == IF strcmp("native", str) = 0 THEN acpi_backlight_native ELSE c2
        c4 == IF strcmp("nvidia_wmi_ec", str) = 0
              THEN acpi_backlight_nvidia_wmi_ec ELSE c3
    IN  IF strcmp("none", str) = 0 THEN acpi_backlight_none ELSE c4

(* values of acpi_video_backlight_string offered to the parser *)
CmdlineStrings == {"", "video", "none", "Video"}

ACPI_VIDEO_BACKLIGHT == "ACPI_VIDEO_BACKLIGHT"
ACPI_VIDEO_OUTPUT_SWITCHING == "ACPI_VIDEO_OUTPUT_SWITCHING"

(* a namespace node: acpi_dev is the result of acpi_fetch_acpi_dev(),      *)
(* video_hid of !acpi_match_device_ids(), pci_dev of acpi_get_pci_dev(),   *)
(* caps the bits returned by acpi_is_video_device()                        *)
Node(a, h, p, c) == [acpi_dev |-> a, video_hid |-> h, pci_dev |-> p, caps |-> c]

(* find_video(): new value of *cap, a set of capability bits *)
find_video(node, cap) ==
    IF node.acpi_dev /\ node.video_hid
    THEN IF ~node.pci_dev THEN cap ELSE cap \cup node.caps
    ELSE cap

(* acpi_walk_namespace(..., find_video, NULL, &video_caps, NULL) *)
RECURSIVE acpi_walk_namespace(_, _)
acpi_walk_namespace(nodes, cap) ==
    IF nodes = <<>>
    THEN cap
    ELSE acpi_walk_namespace(Tail(nodes), find_video(Head(nodes), cap))

(* device namespaces offered to the walk *)
Namespaces ==
    {<<>>,
     <<Node(FALSE, FALSE, FALSE, {})>>,
     <<Node(TRUE, FALSE, TRUE, {ACPI_VIDEO_BACKLIGHT})>>,
     <<Node(TRUE, TRUE, FALSE, {ACPI_VIDEO_BACKLIGHT})>>,
     <<Node(TRUE, TRUE, TRUE, {ACPI_VIDEO_OUTPUT_SWITCHING}),
       Node(TRUE, TRUE, TRUE, {ACPI_VIDEO_BACKLIGHT}),
       Node(TRUE, FALSE, FALSE, {})>>}

WMI_BRIGHTNESS_SOURCE_GPU == "WMI_BRIGHTNESS_SOURCE_GPU"
WMI_BRIGHTNESS_SOURCE_EC == "WMI_BRIGHTNESS_SOURCE_EC"

(* nvidia_wmi_ec_supported(): reply is the outcome of wmi_evaluate_method() *)
nvidia_wmi_ec_supported(reply) ==
    IF reply.failure THEN FALSE ELSE reply.ret = WMI_BRIGHTNESS_SOURCE_EC

WmiReplies ==
    {[failure |-> TRUE, ret |-> WMI_BRIGHTNESS_SOURCE_EC],
     [failure |-> FALSE, ret |-> WMI_BRIGHTNESS_SOURCE_GPU],
     [failure |-> FALSE, ret |-> WMI_BRIGHTNESS_SOURCE_EC]}

(* google_cros_ec_present(): devs is the set of _HIDs acpi_dev_found() finds *)
google_cros_ec_present(devs) == "GOOG0004" \in devs \/ "GOOG000C" \in devs

AcpiDevSets == {{}, {"GOOG000C"}}

(* prefer_native_over_acpi_video() *)
prefer_native_over_acpi_video(win8, devs) ==
    win8 \/ google_cros_ec_present(devs)


(***************************************************************************)
(* State.                                                                  *)
(***************************************************************************)
VARIABLES
    acpi_backlight_cmdline, \* static, line 42
    acpi_backlight_dmi,     \* static, line 43
    nvidia_wmi_ec_present,  \* function statics of
    native_available,       \*   __acpi_video_get_backlight_type()
    init_done,
    video_caps,
    init_mutex,             \* "free" or the thread holding it
    osi_win8,               \* acpi_osi_is_win8()
    acpi_devs,              \* _HIDs present, for acpi_dev_found()
    pc, op, native, auto_detect, type, ret,   \* per thread
    step,                   \* per thread: policy step that produced ret
    unreg,                  \* per thread: this call unregistered the backlight
    dmi_quiet,              \* per thread: no foreign store to
                            \*   acpi_backlight_dmi since its policy began
    clean,                  \* per thread: query not overlapped by an
                            \*   override or a native registration
    last,                   \* result of the last clean plain query
    calls,                  \* public operations started
    unregister_calls,       \* acpi_video_unregister_backlight() invocations
    init_runs,              \* executions of the initialisation block
    dmi_ident, pci_trident, dmi_d,  \* dmi_check_system() walked rule by rule
    parse_str, parse_line,  \* acpi_video_parse_cmdline() walked test by test
    history                 \* results of the queries made one after another

shared == <<acpi_backlight_cmdline, acpi_backlight_dmi, nvidia_wmi_ec_present,
            native_available, init_done, video_caps>>

platform == <<osi_win8, acpi_devs>>

locals == <<pc, op, native, auto_detect, type, ret, step, unreg>>

ghosts == <<dmi_quiet, clean, last, calls, unregister_calls, init_runs>>

quirkwalk == <<dmi_ident, pci_trident, dmi_d>>

parsewalk == <<parse_str, parse_line>>

vars == <<shared, init_mutex, platform, locals, ghosts, quirkwalk, parsewalk,
          history>>

Threads == {"t1", "t2"}

(* public operations started in one run *)
MaxCalls == 3

NoRet == "noret"

(* the machine before the first query *)
Boot ==
    /\ acpi_backlight_cmdline = acpi_backlight_undef
    /\ acpi_backlight_dmi = acpi_backlight_undef
    /\ nvidia_wmi_ec_present = FALSE
    /\ native_available = FALSE
    /\ init_done = FALSE
    /\ video_caps = {}
    /\ init_mutex = "free"
    /\ pc = [p \in Threads |-> "idle"]
    /\ op = [p \in Threads |-> "none"]
    /\ native = [p \in Threads |-> FALSE]
    /\ auto_detect = [p \in Threads |-> "null"]
    /\ type = [p \in Threads |-> acpi_backlight_undef]
    /\ ret = [p \in Threads |-> NoRet]
    /\ step = [p \in Threads |-> 0]
    /\ unreg = [p \in Threads |-> FALSE]
    /\ dmi_quiet = [p \in Threads |-> FALSE]
    /\ clean = [p \in Threads |-> FALSE]
    /\ last = <<>>
    /\ calls = 0
    /\ unregister_calls = 0
    /\ init_runs = 0
    /\ history = <<>>

(* acpi_dev_found() is only consulted when acpi_osi_is_win8() is false     *)
(* (line 727), so the devices are drawn for those platforms only           *)
Init ==
    /\ Boot
    /\ osi_win8 \in BOOLEAN
    /\ acpi_devs \in IF osi_win8 THEN {{}} ELSE AcpiDevSets
    /\ dmi_ident = NoIdent
    /\ pci_trident = FALSE
    /\ dmi_d = 0
    /\ parse_str = ""
    /\ parse_line = 0


(***************************************************************************)
(* The tests and stores of the two public operations.                      *)
(***************************************************************************)
(* the block entered on every call *)
NeedInitAlways(done) == TRUE

(* line 744: if (!init_done) *)
NeedInit(done) == ~done

(* native_available = native; *)
NativeUpdateAssign(n, avail) == n

(* lines 753-754: if (native) native_available = true; *)
NativeUpdate(n, avail) == IF n THEN TRUE ELSE avail

(* the function leaves without releasing the mutex *)
mutex_unlock_missing(m) == m

(* line 755: mutex_unlock(&init_mutex); *)
mutex_unlock(m) == "free"

(* only the first store reaches the caller's variable *)
StoreAutoDetectOnce(a, v) == IF a = "unset" THEN v ELSE a

(* lines 757-758 and 775-776: if (auto_detect) *auto_detect = v; *)
StoreAutoDetect(a, v) == IF a = "null" THEN "null" ELSE v

(* a parser result of "none" taken for "nothing on the command line" *)
CmdlineSetNoneIsUnset(cmdline) ==
    cmdline # acpi_backlight_undef /\ cmdline # acpi_backlight_none

(* line 764 *)
CmdlineSet(cmdline) == cmdline # acpi_backlight_undef

(* a DMI choice of native taken for "no DMI choice" *)
DmiSetNativeIsUnset(dmi) ==
    dmi # acpi_backlight_undef /\ dmi # acpi_backlight_native

(* line 768 *)
DmiSet(dmi) == dmi # acpi_backlight_undef

(* ACPI video dropped for any native interface, on every platform *)
UseVideoIgnorePrefer(caps, avail, prefer) ==
    ACPI_VIDEO_BACKLIGHT \in caps /\ ~avail

(* lines 779-780 *)
UseVideo(caps, avail, prefer) ==
    ACPI_VIDEO_BACKLIGHT \in caps /\ ~(avail /\ prefer)

(* ACPI video tried before the vendor-EC special case *)
AutoStepVideoFirst(ec, caps, avail, prefer) ==
    IF UseVideo(caps, avail, prefer)
    THEN [r |-> acpi_backlight_video, n |-> 4]
    ELSE IF ec
         THEN [r |-> acpi_backlight_nvidia_wmi_ec, n |-> 3]
         ELSE [r |-> acpi_backlight_undef, n |-> 0]

(* lines 772-781: the result and the policy step that gives it, or step 0  *)
(* when control passes on to line 784                                      *)
AutoStep(ec, caps, avail, prefer) ==
    IF ec
    THEN [r |-> acpi_backlight_nvidia_wmi_ec, n |-> 3]
    ELSE IF UseVideo(caps, avail, prefer)
         THEN [r |-> acpi_backlight_video, n |-> 4]
         ELSE [r |-> acpi_backlight_undef, n |-> 0]

(* the fallback without the Windows 8 test of line 805 *)
FallbackStepNoWin8(avail, win8) ==
    IF avail
    THEN [r |-> acpi_backlight_native, n |-> 5]
    ELSE [r |-> acpi_backlight_vendor, n |-> 7]

(* lines 784-809 *)
FallbackStep(avail, win8) ==
    IF avail
    THEN [r |-> acpi_backlight_native, n |-> 5]
    ELSE IF win8
         THEN [r |-> acpi_backlight_none, n |-> 6]
         ELSE [r |-> acpi_backlight_vendor, n |-> 7]

(* the test of line 823 inverted *)
ShouldUnregisterInverted(r) == r = acpi_backlight_video

(* line 823 *)
ShouldUnregister(r) == r # acpi_backlight_video

(***************************************************************************)
(* Threads calling the two public operations.                              *)
(***************************************************************************)
Disturbing(q) == op[q] = "set" \/ (op[q] = "get" /\ native[q])

(* a driver calls __acpi_video_get_backlight_type(n, &var) *)
CallGet(p) ==
    /\ pc[p] = "idle"
    /\ calls < MaxCalls
    /\ \E n \in BOOLEAN :
        /\ native' = [native EXCEPT ![p] = n]
        /\ auto_detect' = [auto_detect EXCEPT ![p] = "unset"]
        /\ clean' = IF n
                    THEN [q \in Threads |-> FALSE]
                    ELSE [clean EXCEPT ![p] =
                             \A q \in Threads \ {p} : ~Disturbing(q)]
        /\ last' = IF n THEN <<>> ELSE last
    /\ pc' = [pc EXCEPT ![p] = "g_lock"]
    /\ op' = [op EXCEPT ![p] = "get"]
    /\ calls' = calls + 1
    /\ UNCHANGED <<shared, init_mutex, platform, type, ret, step, unreg,
                   dmi_quiet, unregister_calls, init_runs, quirkwalk, parsewalk, history>>

(* a driver calls acpi_video_set_dmi_backlight_type(t): line 821, then the *)
(* call of acpi_video_get_backlight_type(), which is                       *)
(* __acpi_video_get_backlight_type(false, NULL)                            *)
SetWrite(p) ==
    /\ pc[p] = "idle"
    /\ calls < MaxCalls
    /\ \E t \in BacklightType :
        /\ type' = [type EXCEPT ![p] = t]
        /\ acpi_backlight_dmi' = t
        /\ dmi_quiet' = IF t = acpi_backlight_dmi
                        THEN dmi_quiet
                        ELSE [q \in Threads |-> FALSE]
    /\ op' = [op EXCEPT ![p] = "set"]
    /\ native' = [native EXCEPT ![p] = FALSE]
    /\ auto_detect' = [auto_detect EXCEPT ![p] = "null"]
    /\ pc' = [pc EXCEPT ![p] = "g_lock"]
    /\ clean' = [q \in Threads |-> FALSE]
    /\ last' = <<>>
    /\ calls' = calls + 1
    /\ UNCHANGED <<acpi_backlight_cmdline, nvidia_wmi_ec_present,
                   native_available, init_done, video_caps, init_mutex,
                   platform, ret, step, unreg, unregister_calls, init_runs,
                   quirkwalk, parsewalk, history>>

(* the same entry with a lock that never makes a caller wait *)
GetLockNoWait(p) ==
    /\ pc[p] = "g_lock"
    /\ init_mutex' = p
    /\ pc' = [pc EXCEPT ![p] =
                IF NeedInit(init_done) THEN "g_init" ELSE "g_native"]
    /\ UNCHANGED <<shared, platform, op, native, auto_detect, type, ret, step,
                   unreg, ghosts, quirkwalk, parsewalk, history>>

(* line 743-744: mutex_lock(&init_mutex); if (!init_done) *)
GetLock(p) ==
    /\ pc[p] = "g_lock"
    /\ init_mutex = "free"
    /\ init_mutex' = p
    /\ pc' = [pc EXCEPT ![p] =
                IF NeedInit(init_done) THEN "g_init" ELSE "g_native"]
    /\ UNCHANGED <<shared, platform, op, native, auto_detect, type, ret, step,
                   unreg, ghosts, quirkwalk, parsewalk, history>>

(* line 745 *)
InitCmdline(p) ==
    /\ pc[p] = "g_init"
    /\ \E str \in CmdlineStrings :
        acpi_backlight_cmdline' =
            acpi_video_parse_cmdline(str, acpi_backlight_cmdline)
    /\ pc' = [pc EXCEPT ![p] = "g_init_dmi"]
    /\ UNCHANGED <<acpi_backlight_dmi, nvidia_wmi_ec_present, native_available,
                   init_done, video_caps, init_mutex, platform, op, native,
                   auto_detect, type, ret, step, unreg, ghosts, quirkwalk, parsewalk, history>>

(* line 746 *)
InitDmi(p) ==
    /\ pc[p] = "g_init_dmi"
    /\ \E ident \in Identities, dev \in BOOLEAN :
        acpi_backlight_dmi' = dmi_check_system(ident, dev, acpi_backlight_dmi)
    /\ pc' = [pc EXCEPT ![p] = "g_init_walk"]
    /\ UNCHANGED <<acpi_backlight_cmdline, nvidia_wmi_ec_present,
                   native_available, init_done, video_caps, init_mutex,
                   platform, op, native, auto_detect, type, ret, step, unreg,
                   ghosts, quirkwalk, parsewalk, history>>

(* lines 747-749 *)
InitWalk(p) ==
    /\ pc[p] = "g_init_walk"
    /\ \E nodes \in Namespaces :
        video_caps' = acpi_walk_namespace(nodes, video_caps)
    /\ pc' = [pc EXCEPT ![p] = "g_init_wmi"]
    /\ UNCHANGED <<acpi_backlight_cmdline, acpi_backlight_dmi,
                   nvidia_wmi_ec_present, native_available, init_done,
                   init_mutex, platform, op, native, auto_detect, type, ret,
                   step, unreg, ghosts, quirkwalk, parsewalk, history>>

(* lines 750-751 *)
InitDone(p) ==
    /\ pc[p] = "g_init_wmi"
    /\ \E reply \in WmiReplies :
        nvidia_wmi_ec_present' = nvidia_wmi_ec_supported(reply)
    /\ init_done' = TRUE
    /\ init_runs' = init_runs + 1
    /\ pc' = [pc EXCEPT ![p] = "g_native"]
    /\ UNCHANGED <<acpi_backlight_cmdline, acpi_backlight_dmi,
                   native_available, video_caps, init_mutex, platform, op,
                   native, auto_detect, type, ret, step, unreg, dmi_quiet,
                   clean, last, calls, unregister_calls, quirkwalk, parsewalk, history>>

(* the function returns r, which policy step n produced *)
Return(p, r, n) ==
    /\ ret' = [ret EXCEPT ![p] = r]
    /\ step' = [step EXCEPT ![p] = n]
    /\ pc' = [pc EXCEPT ![p] = "g_ret"]

(* lines 753-765: if (native) native_available = true; mutex_unlock();    *)
(* *auto_detect = false; the command line test                             *)
GetNative(p) ==
    /\ pc[p] = "g_native"
    /\ native_available' = NativeUpdate(native[p], native_available)
    /\ init_mutex' = mutex_unlock(init_mutex)
    /\ dmi_quiet' = [dmi_quiet EXCEPT ![p] = TRUE]
    /\ auto_detect' = [auto_detect EXCEPT ![p] = StoreAutoDetect(@, "false")]
    /\ IF CmdlineSet(acpi_backlight_cmdline)
       THEN Return(p, acpi_backlight_cmdline, 1)
       ELSE /\ pc' = [pc EXCEPT ![p] = "g_dmi"]
            /\ UNCHANGED <<ret, step>>
    /\ UNCHANGED <<acpi_backlight_cmdline, acpi_backlight_dmi,
                   nvidia_wmi_ec_present, init_done, video_caps, platform, op,
                   native, type, unreg, clean, last, calls, unregister_calls,
                   init_runs, quirkwalk, parsewalk, history>>

(* lines 768-769, acpi_backlight_dmi loaded once for test and return *)
GetDmi(p) ==
    /\ pc[p] = "g_dmi"
    /\ IF DmiSet(acpi_backlight_dmi)
       THEN Return(p, acpi_backlight_dmi, 2)
       ELSE /\ pc' = [pc EXCEPT ![p] = "g_auto"]
            /\ UNCHANGED <<ret, step>>
    /\ UNCHANGED <<shared, init_mutex, platform, op, native, auto_detect,
                   type, unreg, ghosts, quirkwalk, parsewalk, history>>

(* line 768 when the build loads acpi_backlight_dmi again for the return:  *)
(* the variable is read without init_mutex and without READ_ONCE()         *)
GetDmiTest(p) ==
    /\ pc[p] = "g_dmi"
    /\ DmiSet(acpi_backlight_dmi)
    /\ pc' = [pc EXCEPT ![p] = "g_dmi_ret"]
    /\ UNCHANGED <<shared, init_mutex, platform, op, native, auto_detect,
                   type, ret, step, unreg, ghosts, quirkwalk, parsewalk, history>>

(* line 769 with its own load *)
GetDmiReload(p) ==
    /\ pc[p] = "g_dmi_ret"
    /\ Return(p, acpi_backlight_dmi, 2)
    /\ UNCHANGED <<shared, init_mutex, platform, op, native, auto_detect,
                   type, unreg, ghosts, quirkwalk, parsewalk, history>>

(* lines 772-781 *)
GetAuto(p) ==
    /\ pc[p] = "g_auto"
    /\ LET a == AutoStep(nvidia_wmi_ec_present, video_caps, native_available,
                         prefer_native_over_acpi_video(osi_win8, acpi_devs))
       IN
        /\ auto_detect' = [auto_detect EXCEPT ![p] =
                              IF a.n = 3 THEN @ ELSE StoreAutoDetect(@, "true")]
        /\ IF a.n # 0
           THEN Return(p, a.r, a.n)
           ELSE /\ pc' = [pc EXCEPT ![p] = "g_fallback"]
                /\ UNCHANGED <<ret, step>>
    /\ UNCHANGED <<shared, init_mutex, platform, op, native, type, unreg,
                   ghosts, quirkwalk, parsewalk, history>>

(* lines 784-809 *)
GetFallback(p) ==
    /\ pc[p] = "g_fallback"
    /\ LET f == FallbackStep(native_available, osi_win8) IN Return(p, f.r, f.n)
    /\ UNCHANGED <<shared, init_mutex, platform, op, native, auto_detect,
                   type, unreg, ghosts, quirkwalk, parsewalk, history>>

(* the query returns to the driver that called it *)
GetReturnLocals(p) ==
    /\ pc[p] = "g_ret"
    /\ op[p] = "get"
    /\ last' = IF clean[p] THEN <<ret[p], auto_detect[p]>> ELSE last
    /\ pc' = [pc EXCEPT ![p] = "idle"]
    /\ op' = [op EXCEPT ![p] = "none"]
    /\ native' = [native EXCEPT ![p] = FALSE]
    /\ auto_detect' = [auto_detect EXCEPT ![p] = "null"]
    /\ ret' = [ret EXCEPT ![p] = NoRet]
    /\ step' = [step EXCEPT ![p] = 0]
    /\ clean' = [clean EXCEPT ![p] = FALSE]
    /\ dmi_quiet' = [dmi_quiet EXCEPT ![p] = FALSE]
    /\ UNCHANGED <<shared, init_mutex, platform, type, unreg, calls,
                   unregister_calls, init_runs, quirkwalk, parsewalk>>

GetReturn(p) == GetReturnLocals(p) /\ UNCHANGED history

(* lines 823-824 *)
SetCheck(p) ==
    /\ pc[p] = "g_ret"
    /\ op[p] = "set"
    /\ IF ShouldUnregister(ret[p])
       THEN /\ unregister_calls' = unregister_calls + 1
            /\ unreg' = [unreg EXCEPT ![p] = TRUE]
       ELSE UNCHANGED <<unregister_calls, unreg>>
    /\ pc' = [pc EXCEPT ![p] = "s_ret"]
    /\ UNCHANGED <<shared, init_mutex, platform, op, native, auto_detect,
                   type, ret, step, dmi_quiet, clean, last, calls, init_runs,
                   quirkwalk, parsewalk, history>>

(* line 825 *)
SetReturn(p) ==
    /\ pc[p] = "s_ret"
    /\ pc' = [pc EXCEPT ![p] = "idle"]
    /\ op' = [op EXCEPT ![p] = "none"]
    /\ type' = [type EXCEPT ![p] = acpi_backlight_undef]
    /\ ret' = [ret EXCEPT ![p] = NoRet]
    /\ step' = [step EXCEPT ![p] = 0]
    /\ unreg' = [unreg EXCEPT ![p] = FALSE]
    /\ dmi_quiet' = [dmi_quiet EXCEPT ![p] = FALSE]
    /\ UNCHANGED <<shared, init_mutex, platform, native, auto_detect, clean,
                   last, calls, unregister_calls, init_runs, quirkwalk, parsewalk, history>>

Next ==
    \E p \in Threads :
        \/ CallGet(p)
        \/ SetWrite(p)
        \/ GetLock(p)
        \/ InitCmdline(p)
        \/ InitDmi(p)
        \/ InitWalk(p)
        \/ InitDone(p)
        \/ GetNative(p)
        \/ GetDmi(p)
        \/ GetDmiTest(p)
        \/ GetDmiReload(p)
        \/ GetAuto(p)
        \/ GetFallback(p)
        \/ GetReturn(p)
        \/ SetCheck(p)
        \/ SetReturn(p)

Spec == Init /\ [][Next]_vars

(* the steps of a call that has started: a thread inside either public     *)
(* function keeps running; when a driver calls is up to the driver         *)
Proceed(p) ==
    \/ GetLock(p)
    \/ InitCmdline(p)
    \/ InitDmi(p)
    \/ InitWalk(p)
    \/ InitDone(p)
    \/ GetNative(p)
    \/ GetDmi(p)
    \/ GetDmiTest(p)
    \/ GetDmiReload(p)
    \/ GetAuto(p)
    \/ GetFallback(p)
    \/ GetReturn(p)
    \/ SetCheck(p)
    \/ SetReturn(p)

(* public operations started in one run of FairSpec *)
FairCalls == 2

(* locking does not depend on the platform: one platform is enough *)
InitFair ==
    /\ Init
    /\ osi_win8 = FALSE
    /\ acpi_devs = {}

NextFair ==
    \E p \in Threads :
        \/ calls < FairCalls /\ CallGet(p)
        \/ calls < FairCalls /\ SetWrite(p)
        \/ Proceed(p)

(* the program under a scheduler that lets every runnable thread run, with *)
(* probes that return: a thread inside a call takes its next step unless   *)
(* it waits for init_mutex                                                 *)
FairSpec ==
    InitFair /\ [][NextFair]_vars /\ \A p \in Threads : WF_vars(Proceed(p))


(***************************************************************************)
(* Queries only, each made after the one before it has returned, with the  *)
(* results written down in the order of the calls.                         *)
(***************************************************************************)
SeqCall(p) ==
    /\ \A q \in Threads : pc[q] = "idle"
    /\ CallGet(p)

(* the return of the query, its result and its native argument noted *)
SeqReturn(p) ==
    /\ GetReturnLocals(p)
    /\ history' = Append(history, [r |-> ret[p], n |-> native[p]])

NextSeq ==
    \E p \in Threads :
        \/ SeqCall(p)
        \/ GetLock(p)
        \/ InitCmdline(p)
        \/ InitDmi(p)
        \/ InitWalk(p)
        \/ InitDone(p)
        \/ GetNative(p)
        \/ GetDmi(p)
        \/ GetDmiTest(p)
        \/ GetDmiReload(p)
        \/ GetAuto(p)
        \/ GetFallback(p)
        \/ SeqReturn(p)

SeqSpec == Init /\ [][NextSeq]_vars


(***************************************************************************)
(* dmi_check_system(video_detect_dmi_table) walked one table entry at a    *)
(* time, for one machine.                                                  *)
(***************************************************************************)
InitQuirk ==
    /\ Boot
    /\ osi_win8 = FALSE
    /\ acpi_devs = {}
    /\ dmi_ident \in Identities
    /\ pci_trident \in BOOLEAN
    /\ dmi_d = 1
    /\ parse_str = ""
    /\ parse_line = 0

DmiDone == Len(video_detect_dmi_table) + 2

(* the entry under dmi_d does not match the machine *)
DmiNoMatch ==
    /\ dmi_d \in 1..Len(video_detect_dmi_table)
    /\ ~dmi_matches(video_detect_dmi_table[dmi_d], dmi_ident)
    /\ dmi_d' = dmi_d + 1
    /\ UNCHANGED <<shared, init_mutex, platform, locals, ghosts, dmi_ident,
                   pci_trident, parsewalk, history>>

(* the entry matches and its callback runs *)
DmiCallback ==
    /\ dmi_d \in 1..Len(video_detect_dmi_table)
    /\ dmi_matches(video_detect_dmi_table[dmi_d], dmi_ident)
    /\ LET o == DmiVisit(dmi_d, dmi_ident, pci_trident, acpi_backlight_dmi) IN
        /\ acpi_backlight_dmi' = o.dmi
        /\ dmi_d' = IF o.stop THEN DmiDone ELSE dmi_d + 1
    /\ UNCHANGED <<acpi_backlight_cmdline, nvidia_wmi_ec_present,
                   native_available, init_done, video_caps, init_mutex,
                   platform, locals, ghosts, dmi_ident, pci_trident, parsewalk, history>>

(* the terminating entry { } ends the walk *)
DmiEnd ==
    /\ dmi_d = Len(video_detect_dmi_table) + 1
    /\ dmi_d' = DmiDone
    /\ UNCHANGED <<shared, init_mutex, platform, locals, ghosts, dmi_ident,
                   pci_trident, parsewalk, history>>

NextQuirk == DmiNoMatch \/ DmiCallback \/ DmiEnd

QuirkSpec == InitQuirk /\ [][NextQuirk]_vars


(***************************************************************************)
(* acpi_video_parse_cmdline() walked one comparison at a time for one      *)
(* value of acpi_video_backlight_string, followed by the command line test *)
(* of the first query.                                                     *)
(***************************************************************************)
(* lines 47-56: the five comparisons in source order *)
acpi_video_parse_tests ==
    << [str |-> "vendor",        type |-> acpi_backlight_vendor],
       [str |-> "video",         type |-> acpi_backlight_video],
       [str |-> "native",        type |-> acpi_backlight_native],
       [str |-> "nvidia_wmi_ec", type |-> acpi_backlight_nvidia_wmi_ec],
       [str |-> "none",          type |-> acpi_backlight_none] >>

(* values of acpi_video_backlight_string: the five tokens, the empty       *)
(* default and near misses in case, length and spelling                    *)
ParseStrings ==
    {"", "vendor", "video", "native", "nvidia_wmi_ec", "none",
     "Vendor", "VIDEO", "Native", "NONE", "vendors", "vide", "nvidia_wmi",
     "nvidia-wmi-ec", " video", "none ", "auto", "acpi_video"}

ParseDone == Len(acpi_video_parse_tests) + 1

InitParse ==
    /\ Boot
    /\ osi_win8 = FALSE
    /\ acpi_devs = {}
    /\ dmi_ident = NoIdent
    /\ pci_trident = FALSE
    /\ dmi_d = 0
    /\ parse_str \in ParseStrings
    /\ parse_line = 1

(* if (!strcmp(token, acpi_video_backlight_string)) with equal strings *)
ParseHit ==
    /\ parse_line \in 1..Len(acpi_video_parse_tests)
    /\ strcmp(acpi_video_parse_tests[parse_line].str, parse_str) = 0
    /\ acpi_backlight_cmdline' = acpi_video_parse_tests[parse_line].type
    /\ parse_line' = parse_line + 1
    /\ UNCHANGED <<acpi_backlight_dmi, nvidia_wmi_ec_present, native_available,
                   init_done, video_caps, init_mutex, platform, locals, ghosts,
                   quirkwalk, parse_str, history>>

(* the same test with different strings: no store *)
ParseMiss ==
    /\ parse_line \in 1..Len(acpi_video_parse_tests)
    /\ strcmp(acpi_video_parse_tests[parse_line].str, parse_str) # 0
    /\ parse_line' = parse_line + 1
    /\ UNCHANGED <<shared, init_mutex, platform, locals, ghosts, quirkwalk,
                   parse_str, history>>

(* lines 764-765 in the first query after the parser ran *)
ParseQuery ==
    /\ parse_line = ParseDone
    /\ parse_line' = ParseDone + 1
    /\ IF CmdlineSet(acpi_backlight_cmdline)
       THEN Return("t1", acpi_backlight_cmdline, 1)
       ELSE /\ pc' = [pc EXCEPT !["t1"] = "g_dmi"]
            /\ UNCHANGED <<ret, step>>
    /\ UNCHANGED <<shared, init_mutex, platform, op, native, auto_detect,
                   type, unreg, ghosts, quirkwalk, parse_str, history>>

NextParse == ParseHit \/ ParseMiss \/ ParseQuery

ParseSpec == InitParse /\ [][NextParse]_vars


(***************************************************************************)
(* Properties.                                                             *)
(***************************************************************************)
Returned(p) == pc[p] = "g_ret"

(* C1: every value a query returns, under any interleaving of queries and  *)
(* overrides with any argument, is one of vendor, video, native,           *)
(* nvidia_wmi_ec, none and never undef.                                    *)
C1_Totality ==
    \A p \in Threads :
        Returned(p) => ret[p] \in BacklightType \ {acpi_backlight_undef}

(* C2: once acpi_backlight_cmdline is set, every query returns exactly it, *)
(* whatever the quirks, capabilities, vendor probe, native registration,   *)
(* heuristics and overrides.                                               *)
C2_CmdlineSupremacy ==
    \A p \in Threads :
        (Returned(p) /\ acpi_backlight_cmdline # acpi_backlight_undef)
            => ret[p] = acpi_backlight_cmdline

C2_Witness ==
    \E p \in Threads :
        /\ Returned(p)
        /\ op[p] = "get"
        /\ acpi_backlight_cmdline = acpi_backlight_none
        /\ acpi_backlight_dmi = acpi_backlight_video
        /\ nvidia_wmi_ec_present
        /\ native_available
        /\ ACPI_VIDEO_BACKLIGHT \in video_caps
        /\ ret[p] = acpi_backlight_none

(* the type a table callback forces *)
ForcedType(cb) ==
    CASE cb = "video_detect_force_vendor" -> acpi_backlight_vendor
      [] cb = "video_detect_force_video" -> acpi_backlight_video
      [] cb = "video_detect_force_native" -> acpi_backlight_native
      [] cb = "video_detect_portege_r100" -> acpi_backlight_vendor

(* entry d matches the walked machine and its gated probe, if any, succeeds *)
Commits(d) ==
    /\ dmi_matches(video_detect_dmi_table[d], dmi_ident)
    /\ video_detect_dmi_table[d].callback = "video_detect_portege_r100"
           => pci_trident

Committing == {d \in 1..Len(video_detect_dmi_table) : Commits(d)}

FirstCommitting == CHOOSE d \in Committing : \A e \in Committing : d <= e

C4_AutoOnlySteps4And5 ==
    \A p \in Threads :
        (Returned(p) /\ auto_detect[p] = "true") => step[p] \in {4, 5}

(* C4: *auto_detect, when provided, is true exactly for a result of policy *)
(* steps 4 to 7 (video, native, or the none/vendor fallback), and false    *)
(* for the command line, a DMI override and the vendor-EC special case.    *)
C4_AutoDetect ==
    \A p \in Threads :
        (Returned(p) /\ auto_detect[p] # "null") =>
            /\ auto_detect[p] \in {"true", "false"}
            /\ auto_detect[p] = "true" <=> step[p] \in 4..7
            /\ auto_detect[p] = "false" <=> step[p] \in 1..3

C4_Witness ==
    \E p \in Threads :
        /\ Returned(p)
        /\ auto_detect[p] = "true"
        /\ step[p] = 6
        /\ ret[p] = acpi_backlight_none

SetChecked(p) == pc[p] = "s_ret"

(* C5: acpi_video_set_dmi_backlight_type(t) stores t into                  *)
(* acpi_backlight_dmi, evaluates the policy again and unregisters the      *)
(* acpi_video backlight exactly when that result is not video: never when  *)
(* the command line forces video, always when it forces another type.      *)
C5_OverrideProtocol ==
    [][\A p \in Threads :
        /\ (pc[p] = "idle" /\ op'[p] = "set") =>
               /\ acpi_backlight_dmi' = type'[p]
               /\ pc'[p] = "g_lock"
               /\ unregister_calls' = unregister_calls
        /\ (Returned(p) /\ op[p] = "set" /\ pc'[p] # pc[p]) =>
               /\ unregister_calls' =
                      IF ret[p] # acpi_backlight_video
                      THEN unregister_calls + 1 ELSE unregister_calls
               /\ acpi_backlight_cmdline = acpi_backlight_video
                      => unregister_calls' = unregister_calls
               /\ acpi_backlight_cmdline
                          \notin {acpi_backlight_undef, acpi_backlight_video}
                      => unregister_calls' = unregister_calls + 1
        /\ (unregister_calls' # unregister_calls) =>
               \E q \in Threads : Returned(q) /\ op[q] = "set" /\ SetChecked(q)'
      ]_vars

C5_Witness ==
    \E p \in Threads :
        /\ SetChecked(p)
        /\ type[p] = acpi_backlight_video
        /\ acpi_backlight_cmdline = acpi_backlight_none
        /\ ret[p] = acpi_backlight_none
        /\ unreg[p]
        /\ unregister_calls = 1

InInit(p) == pc[p] \in {"g_init", "g_init_dmi", "g_init_walk", "g_init_wmi"}

(* C6: over any number of sequential or concurrent queries, those made by  *)
(* the override included, the initialisation block runs exactly once and   *)
(* init_done goes from false to true once; no later call runs a probe.     *)
C6_InitOnce ==
    /\ init_runs = IF init_done THEN 1 ELSE 0
    /\ \A p \in Threads : InInit(p) => (~init_done /\ init_mutex = p)
    /\ \A p \in Threads :
        pc[p] \in {"g_native", "g_dmi", "g_dmi_ret", "g_auto", "g_fallback",
                   "g_ret", "s_ret"} => init_done

C6_Witness ==
    /\ init_runs = 1
    /\ calls = 3
    /\ \E p \in Threads : Returned(p) /\ op[p] = "set"
    /\ \E p \in Threads : Returned(p) /\ op[p] = "get"

PastNative(p) ==
    pc[p] \in {"g_dmi", "g_dmi_ret", "g_auto", "g_fallback", "g_ret", "s_ret"}

(* C7: native_available only ever goes from false to true: no query with   *)
(* native = false, no initialisation and no override resets it, and a      *)
(* query with native = true sets it whether or not it ran the              *)
(* initialisation.                                                         *)
C7_NativeMonotonic ==
    /\ [](\A p \in Threads : (PastNative(p) /\ native[p]) => native_available)
    /\ [][native_available => native_available']_vars

C7_Witness ==
    /\ native_available
    /\ init_runs = 1
    /\ \E p \in Threads : Returned(p) /\ op[p] = "get" /\ ~native[p]
    /\ \E p \in Threads : Returned(p) /\ op[p] = "set"


(* C8: two consecutive queries with native = false, with no override and   *)
(* no query with native = true between or concurrent with them, return the *)
(* same result and the same *auto_detect.                                  *)
C8_Idempotence ==
    \A p \in Threads :
        (Returned(p) /\ op[p] = "get" /\ clean[p] /\ last # <<>>)
            => last = <<ret[p], auto_detect[p]>>

C8_Witness ==
    \E p \in Threads :
        /\ Returned(p)
        /\ op[p] = "get"
        /\ clean[p]
        /\ last = <<acpi_backlight_native, "true">>
        /\ ret[p] = acpi_backlight_native
        /\ calls = 3

(* C9: with nothing on the command line and acpi_backlight_dmi set, by a   *)
(* quirk or by an override, a query returns acpi_backlight_dmi whatever    *)
(* the vendor probe, the capability scan, native registration and the      *)
(* platform generation say.                                                *)
C9_DmiBeatsAutodetect ==
    \A p \in Threads :
        ( /\ Returned(p)
          /\ dmi_quiet[p]
          /\ acpi_backlight_cmdline = acpi_backlight_undef
          /\ acpi_backlight_dmi # acpi_backlight_undef )
            => ret[p] = acpi_backlight_dmi

C9_Witness ==
    \E p \in Threads :
        /\ Returned(p)
        /\ op[p] = "get"
        /\ dmi_quiet[p]
        /\ acpi_backlight_cmdline = acpi_backlight_undef
        /\ acpi_backlight_dmi = acpi_backlight_vendor
        /\ native_available
        /\ nvidia_wmi_ec_present
        /\ ACPI_VIDEO_BACKLIGHT \in video_caps
        /\ osi_win8
        /\ ret[p] = acpi_backlight_vendor

(* C10: with nothing on the command line, no DMI choice and the vendor     *)
(* embedded controller owning the brightness, a query returns              *)
(* nvidia_wmi_ec even when ACPI video and a native interface are both      *)
(* available, on any platform generation.                                  *)
C10_VendorEc ==
    \A p \in Threads :
        ( /\ Returned(p)
          /\ dmi_quiet[p]
          /\ acpi_backlight_cmdline = acpi_backlight_undef
          /\ acpi_backlight_dmi = acpi_backlight_undef
          /\ nvidia_wmi_ec_present )
            => ret[p] = acpi_backlight_nvidia_wmi_ec

C10_Witness ==
    \E p \in Threads :
        /\ Returned(p)
        /\ dmi_quiet[p]
        /\ acpi_backlight_cmdline = acpi_backlight_undef
        /\ acpi_backlight_dmi = acpi_backlight_undef
        /\ nvidia_wmi_ec_present
        /\ ACPI_VIDEO_BACKLIGHT \in video_caps
        /\ native_available
        /\ ret[p] = acpi_backlight_nvidia_wmi_ec


(* the test "videoCapable AND NOT(nativeAvailable AND preferNativeOverVideo())" *)
VideoChosen ==
    /\ ACPI_VIDEO_BACKLIGHT \in video_caps
    /\ ~(native_available /\ (osi_win8 \/ google_cros_ec_present(acpi_devs)))

(* C11: with nothing on the command line, no DMI choice and no vendor EC,  *)
(* a query returns video exactly when ACPI video is capable and not        *)
(* (a native interface is available and preferred), and otherwise native   *)
(* whenever a native interface is available.                               *)
C11_VideoVersusNative ==
    [][\A p \in Threads :
        /\ (pc[p] = "g_dmi" /\ pc'[p] # "g_dmi"
                /\ acpi_backlight_dmi = acpi_backlight_undef)
               => pc'[p] = "g_auto"
        /\ (pc[p] = "g_auto" /\ pc'[p] # "g_auto" /\ ~nvidia_wmi_ec_present) =>
               /\ acpi_backlight_cmdline = acpi_backlight_undef
               /\ IF VideoChosen
                  THEN pc'[p] = "g_ret" /\ ret'[p] = acpi_backlight_video
                  ELSE pc'[p] = "g_fallback"
        /\ (pc[p] = "g_fallback" /\ pc'[p] # "g_fallback") =>
               /\ ~VideoChosen
               /\ pc'[p] = "g_ret"
               /\ ret'[p] # acpi_backlight_video
               /\ native_available => ret'[p] = acpi_backlight_native
      ]_vars

C11_Witness ==
    \E p \in Threads :
        /\ Returned(p)
        /\ step[p] = 5
        /\ ret[p] = acpi_backlight_native
        /\ acpi_backlight_cmdline = acpi_backlight_undef
        /\ acpi_backlight_dmi = acpi_backlight_undef
        /\ ~nvidia_wmi_ec_present
        /\ ACPI_VIDEO_BACKLIGHT \in video_caps
        /\ native_available
        /\ osi_win8

(* C12: with no override, no vendor EC, no ACPI video capability and no    *)
(* native interface, a query returns none on a Windows 8 generation        *)
(* platform and vendor on an older one.                                    *)
C12_Fallback ==
    \A p \in Threads :
        ( /\ Returned(p)
          /\ dmi_quiet[p]
          /\ acpi_backlight_cmdline = acpi_backlight_undef
          /\ acpi_backlight_dmi = acpi_backlight_undef
          /\ ~nvidia_wmi_ec_present
          /\ ACPI_VIDEO_BACKLIGHT \notin video_caps
          /\ ~native_available )
            => /\ ret[p] = IF osi_win8
                           THEN acpi_backlight_none ELSE acpi_backlight_vendor
               /\ step[p] = IF osi_win8 THEN 6 ELSE 7

C12_Witness ==
    \E p \in Threads :
        /\ Returned(p)
        /\ dmi_quiet[p]
        /\ acpi_backlight_cmdline = acpi_backlight_undef
        /\ acpi_backlight_dmi = acpi_backlight_undef
        /\ ~nvidia_wmi_ec_present
        /\ ACPI_VIDEO_BACKLIGHT \notin video_caps
        /\ ~native_available
        /\ ~osi_win8
        /\ ret[p] = acpi_backlight_vendor


(* the token table of the claim *)
C13_Token(str) ==
    CASE str = "vendor"        -> acpi_backlight_vendor
      [] str = "video"         -> acpi_backlight_video
      [] str = "native"        -> acpi_backlight_native
      [] str = "nvidia_wmi_ec" -> acpi_backlight_nvidia_wmi_ec
      [] str = "none"          -> acpi_backlight_none
      [] OTHER                 -> acpi_backlight_undef

(* C13: the parser maps exactly the five case-sensitive tokens vendor,     *)
(* video, native, nvidia_wmi_ec and none to their type; any other string,  *)
(* the empty one included, leaves acpi_backlight_cmdline undef, and the    *)
(* query then goes on to the DMI test instead of returning at step 1.      *)
C13_Parser ==
    /\ parse_line >= ParseDone =>
          /\ acpi_backlight_cmdline = C13_Token(parse_str)
          /\ acpi_backlight_cmdline =
                 acpi_video_parse_cmdline(parse_str, acpi_backlight_undef)
    /\ parse_line = ParseDone + 1 =>
          IF C13_Token(parse_str) = acpi_backlight_undef
          THEN pc["t1"] = "g_dmi" /\ ret["t1"] = NoRet
          ELSE /\ Returned("t1")
               /\ ret["t1"] = C13_Token(parse_str)
               /\ step["t1"] = 1

C13_Witness ==
    /\ parse_line = ParseDone + 1
    /\ parse_str = "VIDEO"
    /\ acpi_backlight_cmdline = acpi_backlight_undef
    /\ pc["t1"] = "g_dmi"


(* C14: every change of acpi_backlight_cmdline, acpi_backlight_dmi,        *)
(* nvidia_wmi_ec_present, native_available, init_done or video_caps is     *)
(* made by the thread that holds init_mutex; in particular                 *)
(* acpi_backlight_dmi is never written by a thread that does not hold it.  *)
C14_WritesUnderLock ==
    [][ /\ shared' # shared =>
               \E p \in Threads : init_mutex = p /\ pc'[p] # pc[p]
        /\ acpi_backlight_dmi' # acpi_backlight_dmi =>
               \E p \in Threads : init_mutex = p /\ pc'[p] # pc[p]
      ]_vars

(* C15 as stated: every field, acpi_backlight_dmi included, keeps the      *)
(* first value that differs from its default.                              *)
C15_AllCommitOnce ==
    [][ /\ acpi_backlight_cmdline # acpi_backlight_undef =>
               acpi_backlight_cmdline' = acpi_backlight_cmdline
        /\ acpi_backlight_dmi # acpi_backlight_undef =>
               acpi_backlight_dmi' = acpi_backlight_dmi
        /\ video_caps # {} => video_caps' = video_caps
        /\ nvidia_wmi_ec_present => nvidia_wmi_ec_present'
        /\ native_available => native_available'
        /\ init_done => init_done'
      ]_vars

(* C15: acpi_backlight_cmdline, video_caps, nvidia_wmi_ec_present,         *)
(* native_available and init_done only move from their default to one      *)
(* final value, so a lock-free reader sees none of them revert or change;  *)
(* acpi_backlight_dmi is excepted, an override replaces it at any time.    *)
C15_CommitOnce ==
    [][ /\ acpi_backlight_cmdline # acpi_backlight_undef =>
               acpi_backlight_cmdline' = acpi_backlight_cmdline
        /\ video_caps # {} => video_caps' = video_caps
        /\ nvidia_wmi_ec_present => nvidia_wmi_ec_present'
        /\ native_available => native_available'
        /\ init_done => init_done'
      ]_vars

C15_Witness ==
    \E p \in Threads :
        /\ pc[p] = "g_dmi_ret"
        /\ acpi_backlight_dmi = acpi_backlight_undef
        /\ init_done
        /\ native_available
        /\ nvidia_wmi_ec_present
        /\ video_caps # {}

(* C16: no query evaluates the policy or returns before the                *)
(* initialisation has completed; while one caller runs the initialisation  *)
(* every other caller is outside or waiting for init_mutex, and whoever    *)
(* gets past the lock finds the state fully initialised, once.             *)
C16_BlockingInit ==
    /\ \A p, q \in Threads :
        (p # q /\ InInit(q)) => pc[p] \in {"idle", "g_lock"}
    /\ \A p \in Threads :
        (pc[p] \notin {"idle", "g_lock"} /\ ~InInit(p)) =>
            (init_done /\ init_runs = 1)

C16_Witness ==
    \E p, q \in Threads :
        /\ p # q
        /\ pc[q] = "g_init_walk"
        /\ pc[p] = "g_lock"
        /\ op[p] = "get"
        /\ ~init_done


(* inside mutex_lock() ... mutex_unlock() of lines 743-755 *)
InCritical(p) == InInit(p) \/ pc[p] = "g_native"

(* C17: with probes that terminate and a fair scheduler every call of      *)
(* either public function eventually returns, and init_mutex is free       *)
(* whenever no call is between lines 743 and 755; the override in          *)
(* particular holds no lock while it queries or unregisters.               *)
C17_NoDeadlock ==
    /\ [](\A p \in Threads : init_mutex = p <=> InCritical(p))
    /\ [](init_mutex = "free" <=> \A p \in Threads : ~InCritical(p))
    /\ \A p \in Threads : (pc[p] # "idle") ~> (pc[p] = "idle")

C17_Witness ==
    \E p, q \in Threads :
        /\ p # q
        /\ pc[p] = "g_lock"
        /\ op[p] = "set"
        /\ init_mutex = q
        /\ pc[q] = "g_native"
        /\ op[q] = "get"


(* the table entry with the gated callback, lines 203-211 *)
PortegeRule ==
    CHOOSE d \in 1..Len(video_detect_dmi_table) :
        video_detect_dmi_table[d].callback = "video_detect_portege_r100"

(* the machine is matched by the gated entry and by no entry before it *)
PortegeReached ==
    /\ dmi_matches(video_detect_dmi_table[PortegeRule], dmi_ident)
    /\ \A e \in 1..(PortegeRule - 1) :
           ~dmi_matches(video_detect_dmi_table[e], dmi_ident)

(* entries after the gated one that match the machine *)
AfterPortege ==
    {e \in (PortegeRule + 1)..Len(video_detect_dmi_table) :
        dmi_matches(video_detect_dmi_table[e], dmi_ident)}

(* C18: when the Toshiba Portege R100 entry matches the machine but the     *)
(* probe finds no Trident device, acpi_backlight_dmi is left as it was and  *)
(* the walk goes on with the following entries; the entry forces vendor     *)
(* only when the probe finds the device.                                    *)
C18_GatedRule ==
    PortegeReached =>
        /\ dmi_d <= PortegeRule => acpi_backlight_dmi = acpi_backlight_undef
        /\ pci_trident =>
              /\ dmi_d > PortegeRule =>
                    (dmi_d = DmiDone /\ acpi_backlight_dmi = acpi_backlight_vendor)
        /\ ~pci_trident =>
              /\ dmi_d = PortegeRule + 1 =>
                    acpi_backlight_dmi = acpi_backlight_undef
              /\ dmi_d = DmiDone =>
                    acpi_backlight_dmi =
                        IF AfterPortege = {}
                        THEN acpi_backlight_undef
                        ELSE ForcedType(video_detect_dmi_table[
                                 CHOOSE e \in AfterPortege :
                                     \A f \in AfterPortege : e <= f].callback)

C18_Witness ==
    /\ PortegeReached
    /\ ~pci_trident
    /\ AfterPortege # {}
    /\ dmi_d = DmiDone
    /\ acpi_backlight_dmi = acpi_backlight_native


(* C19: once init_done is true no call of either function changes          *)
(* acpi_backlight_cmdline, video_caps, nvidia_wmi_ec_present or init_done; *)
(* a query changes at most native_available (a query with native = true,  *)
(* under the mutex) and never acpi_backlight_dmi, which only the store of  *)
(* the override changes.                                                   *)
C19_Frame ==
    [][ init_done =>
          /\ acpi_backlight_cmdline' = acpi_backlight_cmdline
          /\ video_caps' = video_caps
          /\ nvidia_wmi_ec_present' = nvidia_wmi_ec_present
          /\ init_done'
          /\ acpi_backlight_dmi' # acpi_backlight_dmi =>
                 \E p \in Threads :
                     /\ pc[p] = "idle"
                     /\ op'[p] = "set"
                     /\ acpi_backlight_dmi' = type'[p]
          /\ native_available' # native_available =>
                 \E p \in Threads :
                     pc[p] = "g_native" /\ native[p] /\ init_mutex = p
      ]_vars

C19_Witness ==
    /\ init_done
    /\ init_runs = 1
    /\ native_available
    /\ \E p \in Threads : Returned(p) /\ op[p] = "get" /\ native[p]
    /\ \E q \in Threads :
           SetChecked(q) /\ acpi_backlight_dmi = acpi_backlight_none

(* C20: an override made before or while the initialisation runs is not    *)
(* lost to the quirk table: when the call returns and no other override    *)
(* was made (it is the only call so far, or the only other call is a query *)
(* still in flight), acpi_backlight_dmi is the type it was given.          *)
C20_OverrideKept ==
    \A p \in Threads :
        ( /\ SetChecked(p)
          /\ \/ calls = 1
             \/ calls = 2 /\ \E q \in Threads \ {p} : op[q] = "get" )
            => acpi_backlight_dmi = type[p]


(* the query ended in the autodetection part of the policy, lines 778-809 *)
Autodetected(p) == Returned(p) /\ step[p] \in 4..7

(* C21: in the autodetection branch (nothing on the command line, no DMI   *)
(* choice, no vendor EC) none and vendor are returned only when ACPI video *)
(* is not capable and native_available is false where line 784 tests it;   *)
(* a query with native = true, or on a video capable machine, returns      *)
(* video or native there.                                                   *)
C21_FallbackNeedsNeither ==
    /\ [](\A p \in Threads :
            Autodetected(p) =>
                /\ acpi_backlight_cmdline = acpi_backlight_undef
                /\ ~nvidia_wmi_ec_present
                /\ ret[p] \in {acpi_backlight_none, acpi_backlight_vendor} =>
                       (ACPI_VIDEO_BACKLIGHT \notin video_caps /\ ~native[p])
                /\ (native[p] \/ ACPI_VIDEO_BACKLIGHT \in video_caps) =>
                       ret[p] \in {acpi_backlight_video, acpi_backlight_native})
    /\ [][\A p \in Threads :
            ( /\ pc[p] = "g_fallback"
              /\ ret'[p] \in {acpi_backlight_none, acpi_backlight_vendor} )
                => (~native_available /\ ACPI_VIDEO_BACKLIGHT \notin video_caps)
         ]_vars

C21_Witness ==
    \E p \in Threads :
        /\ Autodetected(p)
        /\ native[p]
        /\ ACPI_VIDEO_BACKLIGHT \notin video_caps
        /\ ~osi_win8
        /\ ret[p] = acpi_backlight_native
        /\ init_runs = 1
        /\ calls >= 2


(* positions of the history after which the result differs *)
ResultChanges ==
    {i \in 1..(Len(history) - 1) : history[i].r # history[i + 1].r}

(* C22: with queries only, made one after another on one platform, the     *)
(* results change at most once, and only at the first query with           *)
(* native = true; every query after a query with native = true returns     *)
(* what that one returned.                                                 *)
C22_ChangesOnce ==
    /\ Cardinality(ResultChanges) <= 1
    /\ \A i \in ResultChanges :
        /\ history[i + 1].n
        /\ \A j \in 1..i : ~history[j].n
    /\ \A i, j \in 1..Len(history) :
        (i < j /\ history[i].n) => history[j].r = history[i].r

C22_Witness ==
    /\ Len(history) = 3
    /\ history[1] = [r |-> acpi_backlight_vendor, n |-> FALSE]
    /\ history[2] = [r |-> acpi_backlight_native, n |-> TRUE]
    /\ history[3] = [r |-> acpi_backlight_native, n |-> FALSE]


(* the precedence policy of lines 764-809 applied to the state as it is *)
FinalDecision ==
    IF CmdlineSet(acpi_backlight_cmdline) THEN acpi_backlight_cmdline
    ELSE IF DmiSet(acpi_backlight_dmi) THEN acpi_backlight_dmi
    ELSE LET a == AutoStep(nvidia_wmi_ec_present, video_caps, native_available,
                           prefer_native_over_acpi_video(osi_win8, acpi_devs))
         IN  IF a.n # 0
             THEN a.r
             ELSE FallbackStep(native_available, osi_win8).r

(* C23: when two overlapping overrides have both made their check and are  *)
(* about to return, and the policy applied to the acpi_backlight_dmi they  *)
(* leave behind does not give video, at least one of them has called       *)
(* acpi_video_unregister_backlight().                                      *)
C23_DetachNotMissed ==
    ( /\ \A p \in Threads : SetChecked(p)
      /\ FinalDecision # acpi_backlight_video )
        => /\ \E p \in Threads : unreg[p]
           /\ unregister_calls >= 1

C23_Witness ==
    \E p, q \in Threads :
        /\ SetChecked(p)
        /\ SetChecked(q)
        /\ type[p] = acpi_backlight_video
        /\ ret[p] = acpi_backlight_video
        /\ ~unreg[p]
        /\ type[q] = acpi_backlight_vendor
        /\ unreg[q]
        /\ acpi_backlight_dmi = acpi_backlight_vendor
        /\ FinalDecision = acpi_backlight_vendor
        /\ calls = 3
        /\ init_runs = 1

====
